---- MODULE Spec2Model ----
(***************************************************************************)
(* A model of the RBF repository's memoizing cache (src/rbf/utils.py,      *)
(* class Memoize and clear_caches) and of the operator assembly of the     *)
(* topographic-stress script (src/docs/scripts/fd.e.py).                   *)
(***************************************************************************)
EXTENDS Integers, Sequences, FiniteSets, TLC

(***************************************************************************)
(* Bounds.  Memoize.MAX_CACHE_SIZE is 100 in src/rbf/utils.py:75; it is a  *)
(* class attribute the code reads on every call, and the model scales it   *)
(* down so that eviction happens within the enumerated inputs.             *)
(***************************************************************************)
MAX_CACHE_SIZE == 2

\* the Memoize instances alive after the decorated functions were defined
Instances == {"f", "g"}

\* the threads of the concurrent specification
Threads == {"t1", "t2"}

(***************************************************************************)
(* Arguments.  A numpy array is its item size in bytes and its items; a    *)
(* Python list stands for any object without a tobytes method.             *)
(***************************************************************************)
A8(d) == [kind |-> "ndarray", itemsize |-> 1, data |-> d]

A16(d) == [kind |-> "ndarray", itemsize |-> 2, data |-> d]

PyList(d) == [kind |-> "list", itemsize |-> 0, data |-> d]

\* the argument tuples the calls are drawn from
ArgTuples ==
  { << A8(<<1, 0>>) >>,
    << A16(<<1>>) >>,
    << A8(<<1>>), A8(<<0>>) >>,
    << A8(<<0, 1>>) >>,
    << A8(<<0>>) >>,
    << A8(<<1, 1>>) >>,
    << A8(<<1, 0>>), PyList(<<1>>) >> }

\* the argument tuples instance i is called with: f with all of them, g (a
\* second registered function) with one
CallArgs(i) == IF i = "f" THEN ArgTuples ELSE { << A8(<<1, 0>>) >> }

\* the instance the threads share, and the argument tuples they call it with
shared == "f"

ThreadArgs ==
  { << A8(<<1, 0>>) >>, << A8(<<0, 1>>) >>, << A8(<<0>>) >>,
    << A8(<<1>>), A8(<<0>>) >> }

\* the argument tuples on which the wrapped function raises
RaisingArgs == { << A8(<<1, 1>>) >> }

\* little-endian bytes of one item of width w
ItemBytes(e, w) == [j \in 1..w |-> (e \div (256 ^ (j - 1))) % 256]

RECURSIVE DataBytes(_, _)
DataBytes(d, w) ==
  IF d = <<>> THEN <<>> ELSE ItemBytes(Head(d), w) \o DataBytes(Tail(d), w)

\* ndarray.tobytes(): the raw bytes of the items, without dtype or shape
tobytes(a) == DataBytes(a.data, a.itemsize)

\* whether every argument has a tobytes method
HasToBytesAlways(args) == TRUE

HasToBytes(args) == \A j \in 1..Len(args) : args[j].kind = "ndarray"

\* key = tuple(a.tobytes() for a in args)
KeyOfConcat(args) ==
  LET RECURSIVE Cat(_)
      Cat(j) == IF j > Len(args) THEN <<>> ELSE tobytes(args[j]) \o Cat(j + 1)
  IN  << Cat(1) >>

KeyOf(args) == [j \in 1..Len(args) |-> tobytes(args[j])]

\* the bytes of all arguments, concatenated in argument order
ConcatBytes(args) == KeyOfConcat(args)[1]

\* the wrapped function: deterministic, its result named by its arguments
fin(args) == [of |-> args]

finRaises(args) == args \in RaisingArgs

(***************************************************************************)
(* collections.OrderedDict, as the sequence of its (key, value) items in   *)
(* iteration order.                                                        *)
(***************************************************************************)
Keys(c) == {c[j].key : j \in 1..Len(c)}

KeySeq(c) == [j \in 1..Len(c) |-> c[j].key]

\* key in self.cache
OD_containsNever(c, key) == FALSE

OD_contains(c, key) == key \in Keys(c)

\* self.cache[key], for a key the dictionary holds
OD_get(c, key) == c[CHOOSE j \in 1..Len(c) : c[j].key = key].val

\* self.cache[key] = val: a new key goes last, a stored key keeps its place
OD_set(c, key, val) ==
  IF key \in Keys(c)
    THEN [j \in 1..Len(c) |->
            IF c[j].key = key THEN [key |-> key, val |-> val] ELSE c[j]]
    ELSE Append(c, [key |-> key, val |-> val])

\* OrderedDict.popitem(last) on a non-empty dictionary: the dictionary left
\* and the key removed; a false `last` removes the first item
OD_popitem(c, last) ==
  IF last # 0
    THEN [cache |-> SubSeq(c, 1, Len(c) - 1), key |-> c[Len(c)].key]
    ELSE [cache |-> Tail(c), key |-> Head(c).key]

\* self.cache.popitem(0)
PopNewest(c) == OD_popitem(c, 1)

PopOldest(c) == OD_popitem(c, 0)

\* len(self.cache) >= Memoize.MAX_CACHE_SIZE
NoRoomOffByOne(c) == Len(c) > MAX_CACHE_SIZE

NoRoom(c) == Len(c) >= MAX_CACHE_SIZE

\* while len(self.cache) >= Memoize.MAX_CACHE_SIZE: self.cache.popitem(0)
RECURSIVE MakeRoom(_)
MakeRoom(c) ==
  IF NoRoom(c)
    THEN LET p == PopOldest(c)
             r == MakeRoom(p.cache)
         IN  [cache |-> r.cache, evicted |-> <<p.key>> \o r.evicted]
    ELSE [cache |-> c, evicted |-> <<>>]

(***************************************************************************)
(* Memoize.__call__ run from its first line to its last on the cache c:    *)
(* the cache left behind and what the caller sees.                         *)
(***************************************************************************)
Outcome(c, hit, finCalled, raised, ret, evicted) ==
  [cache |-> c, hit |-> hit, finCalled |-> finCalled, raised |-> raised,
   ret |-> ret, evicted |-> evicted]

CallResult(c, args) ==
  IF ~HasToBytes(args)
    THEN \* a.tobytes() raises AttributeError while the key is built
         Outcome(c, FALSE, FALSE, TRUE, <<>>, <<>>)
    ELSE LET key == KeyOf(args) IN
         IF OD_contains(c, key)
           THEN Outcome(c, TRUE, FALSE, FALSE, <<OD_get(c, key)>>, <<>>)
           ELSE LET r == MakeRoom(c) IN
                IF finRaises(args)
                  THEN Outcome(r.cache, FALSE, TRUE, TRUE, <<>>, r.evicted)
                  ELSE LET c2 == OD_set(r.cache, key, fin(args)) IN
                       Outcome(c2, FALSE, TRUE, FALSE,
                               <<OD_get(c2, key)>>, r.evicted)

(***************************************************************************)
(* clear_caches(): walks the registry of weak references in order; a live  *)
(* instance gets a new empty cache, a dead reference is skipped.           *)
(***************************************************************************)
RECURSIVE ClearFromNoCheck(_, _, _, _)
ClearFromNoCheck(c, live, refs, j) ==
  IF j > Len(refs)
    THEN [cache |-> c, raised |-> FALSE]
    ELSE IF live[refs[j]]
      THEN ClearFromNoCheck([c EXCEPT ![refs[j]] = <<>>], live, refs, j + 1)
      ELSE [cache |-> c, raised |-> TRUE]

RECURSIVE ClearFrom(_, _, _, _)
ClearFrom(c, live, refs, j) ==
  IF j > Len(refs)
    THEN [cache |-> c, raised |-> FALSE]
    ELSE IF live[refs[j]]
      THEN ClearFrom([c EXCEPT ![refs[j]] = <<>>], live, refs, j + 1)
      ELSE ClearFrom(c, live, refs, j + 1)

(***************************************************************************)
(* The operator assembly of src/docs/scripts/fd.e.py.  A row of a block is *)
(* the set of its terms, each a stencil evaluated at a node and scaled by  *)
(* a coefficient; the zero row is the empty set and a sum of rows is their *)
(* union.                                                                  *)
(***************************************************************************)
MaxInterior == 2

MaxBoundary == 2

GroupNames ==
  {"interior", "boundary:free", "boundary:roller", "ghosts:free",
   "ghosts:roller"}

Blocks == {"xx", "xy", "yx", "yy"}

\* the passes, in the order the script runs them
PassNames ==
  << "body:interior", "body:free", "body:roller", "traction:free",
     "normal:roller", "tangent:roller" >>

Range(q) == {q[j] : j \in 1..Len(q)}

\* the groups of the node generator for I interior, F free and R roller
\* nodes: a partition of 0..N-1, each ghost group as long as its boundary
\* group and in the same order; the generator's node order is arbitrary,
\* here a rotation by r, reversed when flip
Place(n, k, r, flip) == IF flip THEN n - 1 - ((k + r) % n) ELSE (k + r) % n

Grouping(I, F, R, r, flip) ==
  LET n == I + 2 * F + 2 * R
      Run(first, len) == [j \in 1..len |-> Place(n, first + j - 1, r, flip)]
  IN  [g \in GroupNames |->
         CASE g = "interior" -> Run(0, I)
           [] g = "boundary:free" -> Run(I, F)
           [] g = "boundary:roller" -> Run(I + F, R)
           [] g = "ghosts:free" -> Run(I + F + R, F)
           [] OTHER -> Run(I + 2 * F + R, R)]

NodeCount(groups) ==
  Len(groups["interior"]) + Len(groups["boundary:free"])
    + Len(groups["boundary:roller"]) + Len(groups["ghosts:free"])
    + Len(groups["ghosts:roller"])

\* one term of a row: the stencil of block blk of operator family fam
\* evaluated at node `at`, times the coefficient vec[at][comp] (vec "one"
\* is 1)
Term(vec, comp, fam, blk, node) ==
  [vec |-> vec, comp |-> comp, fam |-> fam, blk |-> blk, at |-> node]

\* out[blk] of elastic2d_body_force / elastic2d_surface_force /
\* elastic2d_displacement, the row evaluated at `node`
Stencil(fam, blk, node) == {Term("one", 0, fam, blk, node)}

\* sp.diags(v[:, comp]).dot(out[blk]), the row of `node`
Scaled(vec, comp, fam, blk, node) == {Term(vec, comp, fam, blk, node)}

\* find_orthogonals(normals[idx['boundary:roller']]), by name
parallels == "parallels"

normals == "normals"

\* the nodes a pass evaluates its stencils at
PassSourceAtGhosts(p) ==
  CASE p = "body:interior" -> "interior"
    [] p = "body:free" -> "ghosts:free"
    [] p = "body:roller" -> "ghosts:roller"
    [] p = "traction:free" -> "boundary:free"
    [] p = "normal:roller" -> "boundary:roller"
    [] OTHER -> "boundary:roller"

PassSource(p) ==
  CASE p = "body:interior" -> "interior"
    [] p = "body:free" -> "boundary:free"
    [] p = "body:roller" -> "boundary:roller"
    [] p = "traction:free" -> "boundary:free"
    [] p = "normal:roller" -> "boundary:roller"
    [] OTHER -> "boundary:roller"

\* the index group whose rows a pass writes
PassTargetGhostSlip(p) ==
  CASE p = "body:interior" -> "interior"
    [] p = "body:free" -> "ghosts:free"
    [] p = "body:roller" -> "ghosts:roller"
    [] p = "traction:free" -> "ghosts:free"
    [] p = "normal:roller" -> "boundary:roller"
    [] OTHER -> "boundary:roller"

PassTarget(p) ==
  CASE p = "body:interior" -> "interior"
    [] p = "body:free" -> "ghosts:free"
    [] p = "body:roller" -> "ghosts:roller"
    [] p = "traction:free" -> "boundary:free"
    [] p = "normal:roller" -> "boundary:roller"
    [] OTHER -> "boundary:roller"

\* the blocks a pass writes
PassBlocksNormalInYY(p) ==
  CASE p = "normal:roller" -> {"xx", "yy"}
    [] p = "tangent:roller" -> {"yx", "yy"}
    [] OTHER -> Blocks

PassBlocksTangentAll(p) ==
  CASE p = "normal:roller" -> {"xx", "xy"}
    [] p = "tangent:roller" -> Blocks
    [] OTHER -> Blocks

PassBlocks(p) ==
  CASE p = "normal:roller" -> {"xx", "xy"}
    [] p = "tangent:roller" -> {"yx", "yy"}
    [] OTHER -> Blocks

\* the row a pass writes into block blk for the source node `node`
PassRowOneTerm(p, blk, node) ==
  CASE p \in {"body:interior", "body:free", "body:roller"} ->
         Stencil("body_force", blk, node)
    [] p = "traction:free" -> Stencil("surface_force", blk, node)
    [] p = "normal:roller" ->
         IF blk = "xx"
           THEN Scaled(normals, 0, "displacement", "xx", node)
           ELSE Scaled(normals, 1, "displacement", "yy", node)
    [] OTHER ->
         IF blk = "yx"
           THEN Scaled(parallels, 0, "surface_force", "xx", node)
           ELSE Scaled(parallels, 0, "surface_force", "xy", node)

PassRow(p, blk, node) ==
  CASE p \in {"body:interior", "body:free", "body:roller"} ->
         Stencil("body_force", blk, node)
    [] p = "traction:free" -> Stencil("surface_force", blk, node)
    [] p = "normal:roller" ->
         IF blk = "xx"
           THEN Scaled(normals, 0, "displacement", "xx", node)
           ELSE Scaled(normals, 1, "displacement", "yy", node)
    [] OTHER ->
         IF blk = "yx"
           THEN Scaled(parallels, 0, "surface_force", "xx", node)
                  \cup Scaled(parallels, 1, "surface_force", "yx", node)
           ELSE Scaled(parallels, 0, "surface_force", "xy", node)
                  \cup Scaled(parallels, 1, "surface_force", "yy", node)

\* the last position of `row` in the index array
LastAt(index, row) ==
  CHOOSE j \in 1..Len(index) :
    index[j] = row /\ \A k \in (j + 1)..Len(index) : index[k] # row

\* rbf.fd.add_rows(A, B, idx): A with row idx[j] replaced by row j of B
add_rowsAccumulate(A, B, index) ==
  [row \in DOMAIN A |->
     IF row \in Range(index) THEN A[row] \cup B[LastAt(index, row)] ELSE A[row]]

add_rows(A, B, index) ==
  [row \in DOMAIN A |->
     IF row \in Range(index) THEN B[LastAt(index, row)] ELSE A[row]]

(***************************************************************************)
(* The right-hand side (lines 129-145) and the reported fields (lines      *)
(* 148-178).                                                               *)
(***************************************************************************)
\* the body-force load of line 139
Load == 1

\* x[index] = value, for an index array
Assign(x, index, value) ==
  [j \in DOMAIN x |-> IF (j - 1) \in Range(index) THEN value ELSE x[j]]

\* np.zeros((n,))
Zeros(n) == [j \in 1..n |-> 0]

\* lines 130-137
RhsX(groups, n) ==
  LET a == Assign(Zeros(n), groups["interior"], 0)
      b == Assign(a, groups["ghosts:free"], 0)
      c == Assign(b, groups["ghosts:roller"], 0)
      e == Assign(c, groups["boundary:free"], 0)
  IN  Assign(e, groups["boundary:roller"], 0)

\* lines 131-143
RhsYNoGhosts(groups, n) ==
  LET a == Assign(Zeros(n), groups["interior"], Load)
      e == Assign(a, groups["boundary:free"], 0)
  IN  Assign(e, groups["boundary:roller"], 0)

RhsY(groups, n) ==
  LET a == Assign(Zeros(n), groups["interior"], Load)
      b == Assign(a, groups["ghosts:free"], Load)
      c == Assign(b, groups["ghosts:roller"], Load)
      e == Assign(c, groups["boundary:free"], 0)
  IN  Assign(e, groups["boundary:roller"], 0)

\* line 145: d = np.hstack((d_x, d_y))
RightHandSide(groups, n) == RhsX(groups, n) \o RhsY(groups, n)

\* the arrays the script reports
FieldNames ==
  {"nodes", "u_x", "u_y", "e_xx", "e_yy", "e_xy", "s_xx", "s_yy", "s_xy"}

\* an array with one entry per node: position j holds the value of node j-1
Aligned(n) == [j \in 1..n |-> j - 1]

\* x[index], for an index array
Take(x, index) == [j \in 1..Len(index) |-> x[index[j] + 1]]

\* lines 171-173: idx_no_ghosts
IdxNoGhostsFreeGhosts(groups) ==
  groups["interior"] \o groups["boundary:roller"] \o groups["ghosts:free"]

IdxNoGhosts(groups) ==
  groups["interior"] \o groups["boundary:roller"] \o groups["boundary:free"]

(***************************************************************************)
(* find_orthogonals (lines 17-38).  A row of an (N,2) float array is a      *)
(* pair of fractions over one denominator, (x / den, y / den), so that the  *)
(* arithmetic is exact; rounding is not modelled.                           *)
(***************************************************************************)
MaxComp == 5
MaxRows == 2

\* unit vectors whose components are fractions with a numerator up to MaxComp
UnitVectors ==
  {v \in [x : -MaxComp..MaxComp, y : -MaxComp..MaxComp, den : 1..MaxComp] :
     v.x * v.x + v.y * v.y = v.den * v.den}

\* the arrays passed as n: one to MaxRows unit vectors
NormalArrays ==
  UNION {[1..k -> UnitVectors] : k \in 1..MaxRows}

\* the square root taken by np.linalg.norm, rounded down to an integer
ISqrt(q) == CHOOSE k \in 0..q : k * k <= q /\ (k + 1) * (k + 1) > q

\* out[:, 0] = -np.sum(n, axis=1) + n[:, 1], a wrong column
find_orthogonalsWrongColumn(n) ==
  LET col0(j) == (0 - (n[j].x + n[j].y)) + n[j].y
      col1(j) == n[j].x
  IN  [n   |-> n,
       out |-> [j \in 1..Len(n) |->
                 [x |-> col0(j), y |-> col1(j),
                  den |-> ISqrt(col0(j) * col0(j) + col1(j) * col1(j))]]]

\* The result is a fresh array (line 34), filled column by column (lines
\* 35-36) and divided in place by its row norms (line 37): the norm of row j
\* is sqrt(col0^2 + col1^2) / den, so the quotient has the numerators col0,
\* col1 over the denominator sqrt(col0^2 + col1^2).  The value is the pair
\* of the argument as it is after the call and the returned array.
find_orthogonals(n) ==
  LET col0(j) == (0 - (n[j].x + n[j].y)) + n[j].x
      col1(j) == n[j].x
  IN  [n   |-> n,
       out |-> [j \in 1..Len(n) |->
                 [x |-> col0(j), y |-> col1(j),
                  den |-> ISqrt(col0(j) * col0(j) + col1(j) * col1(j))]]]

(***************************************************************************)
(* State.                                                                  *)
(***************************************************************************)
VARIABLES
  cache,       \* cache[i]: the OrderedDict of instance i
  alive,       \* alive[i]: instance i is still referenced (its weakref is live)
  INSTANCES,   \* Memoize.INSTANCES: the registry, in construction order
  inserted,    \* history: the keys stored in cache[i], in the order inserted
  ev,          \* history: the last operation and what its caller saw
  pc,          \* pc[t]: the line of __call__ thread t is at
  targs,       \* targs[t]: the arguments of thread t's call
  useLock,     \* whether the callers wrap every call in one common lock
  lock,        \* the holder of that lock, or "free"
  idx,         \* idx[group]: the node indices of the group, in order
  N,           \* the number of nodes, ghosts included
  G,           \* G[blk][row]: the blocks G_xx, G_xy, G_yx, G_yy
  Gfull,       \* the stacked operator: row -> <<left half, right half>>
  step,        \* the number of passes run; 7 once the blocks are stacked
  writes,      \* history: writes[blk][row], the passes that wrote the row
  d,           \* the right-hand side, x half first (empty until built)
  fields,      \* fields[f][j]: the node whose value is at position j of the
               \* reported field f (empty until the ghosts are tossed)
  nvec,        \* the argument n of find_orthogonals, one row per vector
  tvec         \* what find_orthogonals returned (empty until called)

memoVars == <<cache, alive, INSTANCES, inserted, ev>>

threadVars == <<pc, targs, useLock, lock>>

postVars == <<d, fields, nvec, tvec>>

asmVars == <<idx, N, G, Gfull, step, writes, d, fields, nvec, tvec>>

vars ==
  <<cache, alive, INSTANCES, inserted, ev, pc, targs, useLock, lock,
    idx, N, G, Gfull, step, writes, d, fields, nvec, tvec>>

NoEvent ==
  [op |-> "init", inst |-> "-", thread |-> "-", args |-> <<>>, hit |-> FALSE,
   finCalled |-> FALSE, raised |-> FALSE, ret |-> <<>>, evicted |-> <<>>,
   dropped |-> 0, prevHit |-> <<>>]

\* history: the instance and key of event e when e is a call that hit
HitOf(e) ==
  IF e.op = "call" /\ e.hit THEN <<e.inst, KeyOf(e.args)>> ELSE <<>>

\* history: the number of entries all caches hold
Entries(c) ==
  LET RECURSIVE Sum(_)
      Sum(S) == IF S = {} THEN 0
                ELSE LET i == CHOOSE x \in S : TRUE
                     IN  Len(c[i]) + Sum(S \ {i})
  IN  Sum(Instances)

\* the insertion history after instance i's cache became c2, `stored` holding
\* the key a miss has just stored (at most one)
InsertedAfter(old, c2, stored) ==
  LET kept == SelectSeq(old, LAMBDA k : k \in Keys(c2) /\ <<k>> # stored)
  IN  IF stored # <<>> /\ stored[1] \in Keys(c2) THEN kept \o stored ELSE kept

\* Memoize.__init__ of every instance: an empty cache, a weak reference
\* appended to the registry
MemoInit ==
  /\ cache = [i \in Instances |-> <<>>]
  /\ alive = [i \in Instances |-> TRUE]
  /\ INSTANCES = <<"f", "g">>
  /\ inserted = [i \in Instances |-> <<>>]
  /\ ev = NoEvent

ThreadsIdle ==
  /\ pc = [t \in Threads |-> "idle"]
  /\ targs = [t \in Threads |-> <<>>]
  /\ lock = "free"

\* the script has not been started
NoAssembly ==
  /\ idx = [g \in GroupNames |-> <<>>]
  /\ N = 0
  /\ G = [blk \in Blocks |-> <<>>]
  /\ Gfull = <<>>
  /\ step = 0
  /\ writes = [blk \in Blocks |-> <<>>]
  /\ d = <<>>
  /\ fields = [f \in FieldNames |-> <<>>]
  /\ nvec = <<>>
  /\ tvec = <<>>

Init ==
  /\ MemoInit
  /\ ThreadsIdle
  /\ useLock = FALSE
  /\ NoAssembly

\* one whole call instance i(*args), nothing else running
Call(i, args) ==
  /\ alive[i]
  /\ LET r == CallResult(cache[i], args)
         stored == IF r.finCalled /\ ~r.raised THEN <<KeyOf(args)>> ELSE <<>>
     IN  /\ cache' = [cache EXCEPT ![i] = r.cache]
         /\ inserted' = [inserted EXCEPT
                           ![i] = InsertedAfter(inserted[i], r.cache, stored)]
         /\ ev' = [op |-> "call", inst |-> i, thread |-> "-", args |-> args,
                   hit |-> r.hit, finCalled |-> r.finCalled,
                   raised |-> r.raised, ret |-> r.ret, evicted |-> r.evicted,
                   dropped |-> 0, prevHit |-> HitOf(ev)]
  /\ UNCHANGED <<alive, INSTANCES>>
  /\ UNCHANGED threadVars
  /\ UNCHANGED asmVars

\* one whole clear_caches()
ClearCaches ==
  /\ LET r == ClearFrom(cache, alive, INSTANCES, 1)
     IN  /\ cache' = r.cache
         /\ inserted' = [i \in Instances |->
                           InsertedAfter(inserted[i], r.cache[i], <<>>)]
         /\ ev' = [NoEvent EXCEPT !.op = "clear", !.raised = r.raised,
                                  !.dropped = Entries(cache) - Entries(r.cache)]
  /\ UNCHANGED <<alive, INSTANCES>>
  /\ UNCHANGED threadVars
  /\ UNCHANGED asmVars

\* the last reference to instance i goes away: the instance and its cache are
\* freed, its weak reference stays in the registry and now yields None
Collect(i) ==
  /\ alive[i]
  /\ alive' = [alive EXCEPT ![i] = FALSE]
  /\ cache' = [cache EXCEPT ![i] = <<>>]
  /\ inserted' = [inserted EXCEPT ![i] = <<>>]
  /\ ev' = [NoEvent EXCEPT !.op = "collect", !.inst = i]
  /\ UNCHANGED INSTANCES
  /\ UNCHANGED threadVars
  /\ UNCHANGED asmVars

Next ==
  \/ \E i \in Instances : \E args \in CallArgs(i) : Call(i, args)
  \/ ClearCaches
  \/ \E i \in Instances : Collect(i)

Spec == Init /\ [][Next]_vars

(***************************************************************************)
(* Memoize.__call__ line by line, for threads that call the same instance  *)
(* at the same time.  A thread switch can fall between any two statements; *)
(* every statement reads self.cache anew.  With useLock the callers hold   *)
(* one common lock around each call.                                       *)
(***************************************************************************)
ThreadEvent(t, hit, finCalled, raised, ret) ==
  [NoEvent EXCEPT !.op = "call", !.inst = shared, !.thread = t,
                  !.args = targs[t], !.hit = hit, !.finCalled = finCalled,
                  !.raised = raised, !.ret = ret]

\* the call of thread t ends: the caller releases the lock it holds
Leave(t, e) ==
  /\ pc' = [pc EXCEPT ![t] = "idle"]
  /\ lock' = IF useLock THEN "free" ELSE lock
  /\ ev' = e

Goto(t, line) ==
  /\ pc' = [pc EXCEPT ![t] = line]
  /\ UNCHANGED <<lock, ev>>

\* the caller takes the lock (when there is one) and calls; line 90 builds
\* the key from the arguments alone
T_Enter(t, args) ==
  /\ pc[t] = "idle"
  /\ alive[shared]
  /\ useLock => lock = "free"
  /\ HasToBytes(args)
  /\ targs' = [targs EXCEPT ![t] = args]
  /\ pc' = [pc EXCEPT ![t] = "check"]
  /\ lock' = IF useLock THEN t ELSE lock
  /\ UNCHANGED <<cache, alive, INSTANCES, inserted, ev, useLock>>
  /\ UNCHANGED asmVars

\* line 91: if key not in self.cache
T_Check(t) ==
  /\ pc[t] = "check"
  /\ IF OD_contains(cache[shared], KeyOf(targs[t]))
       THEN Goto(t, "ret_hit")
       ELSE Goto(t, "while")
  /\ UNCHANGED <<cache, alive, INSTANCES, inserted, targs, useLock>>
  /\ UNCHANGED asmVars

\* line 93: while len(self.cache) >= Memoize.MAX_CACHE_SIZE
T_While(t) ==
  /\ pc[t] = "while"
  /\ IF NoRoom(cache[shared]) THEN Goto(t, "pop") ELSE Goto(t, "fin")
  /\ UNCHANGED <<cache, alive, INSTANCES, inserted, targs, useLock>>
  /\ UNCHANGED asmVars

\* line 94: self.cache.popitem(0); KeyError on a dictionary emptied meanwhile
T_Pop(t) ==
  /\ pc[t] = "pop"
  /\ IF cache[shared] = <<>>
       THEN /\ Leave(t, ThreadEvent(t, FALSE, FALSE, TRUE, <<>>))
            /\ UNCHANGED <<cache, inserted>>
       ELSE LET c2 == PopOldest(cache[shared]).cache IN
            /\ cache' = [cache EXCEPT ![shared] = c2]
            /\ inserted' = [inserted EXCEPT
                  ![shared] = InsertedAfter(inserted[shared], c2, <<>>)]
            /\ Goto(t, "while")
  /\ UNCHANGED <<alive, INSTANCES, targs, useLock>>
  /\ UNCHANGED asmVars

\* line 96, right-hand side: self.fin(*args)
T_Fin(t) ==
  /\ pc[t] = "fin"
  /\ IF finRaises(targs[t])
       THEN Leave(t, ThreadEvent(t, FALSE, TRUE, TRUE, <<>>))
       ELSE Goto(t, "store")
  /\ UNCHANGED <<cache, alive, INSTANCES, inserted, targs, useLock>>
  /\ UNCHANGED asmVars

\* line 96, the assignment: self.cache[key] = <the value computed>
T_Store(t) ==
  /\ pc[t] = "store"
  /\ LET key == KeyOf(targs[t])
         c2 == OD_set(cache[shared], key, fin(targs[t]))
         stored == IF key \in Keys(cache[shared]) THEN <<>> ELSE <<key>>
     IN  /\ cache' = [cache EXCEPT ![shared] = c2]
         /\ inserted' = [inserted EXCEPT
               ![shared] = InsertedAfter(inserted[shared], c2, stored)]
  /\ Goto(t, "ret_miss")
  /\ UNCHANGED <<alive, INSTANCES, targs, useLock>>
  /\ UNCHANGED asmVars

\* line 98: return self.cache[key]; KeyError when the key is not there
T_Return(t) ==
  /\ pc[t] \in {"ret_hit", "ret_miss"}
  /\ LET key == KeyOf(targs[t])
         hit == pc[t] = "ret_hit"
     IN  IF key \in Keys(cache[shared])
           THEN Leave(t, ThreadEvent(t, hit, ~hit, FALSE,
                                     <<OD_get(cache[shared], key)>>))
           ELSE Leave(t, ThreadEvent(t, hit, ~hit, TRUE, <<>>))
  /\ UNCHANGED <<cache, alive, INSTANCES, inserted, targs, useLock>>
  /\ UNCHANGED asmVars

\* clear_caches() called by the program while the threads run; the lock
\* around the calls does not cover it
T_Clear ==
  /\ LET r == ClearFrom(cache, alive, INSTANCES, 1)
     IN  /\ cache' = r.cache
         /\ inserted' = [i \in Instances |->
                           InsertedAfter(inserted[i], r.cache[i], <<>>)]
         /\ ev' = [NoEvent EXCEPT !.op = "clear", !.raised = r.raised,
                                  !.dropped = Entries(cache) - Entries(r.cache)]
  /\ UNCHANGED <<alive, INSTANCES, pc, targs, useLock, lock>>
  /\ UNCHANGED asmVars

InitThreads ==
  /\ MemoInit
  /\ ThreadsIdle
  /\ useLock \in BOOLEAN
  /\ NoAssembly

NextThreads ==
  \/ \E t \in Threads : \E args \in ThreadArgs : T_Enter(t, args)
  \/ \E t \in Threads : T_Check(t)
  \/ \E t \in Threads : T_While(t)
  \/ \E t \in Threads : T_Pop(t)
  \/ \E t \in Threads : T_Fin(t)
  \/ \E t \in Threads : T_Store(t)
  \/ \E t \in Threads : T_Return(t)
  \/ T_Clear

SpecThreads == InitThreads /\ [][NextThreads]_vars

(***************************************************************************)
(* The script, pass by pass (lines 75-127).                                *)
(***************************************************************************)
ZeroBlocks(n) == [blk \in Blocks |-> [row \in 0..(n - 1) |-> {}]]

NoWrites(n) == [blk \in Blocks |-> [row \in 0..(n - 1) |-> <<>>]]

\* lines 67-79 done: the groups the generator returned, N counting the
\* ghosts, four empty N x N blocks
Allocated(groups, n) ==
  /\ idx = groups
  /\ N = n
  /\ G = ZeroBlocks(n)
  /\ Gfull = <<>>
  /\ step = 0
  /\ writes = NoWrites(n)
  /\ d = <<>>
  /\ fields = [f \in FieldNames |-> <<>>]
  /\ nvec = <<>>
  /\ tvec = <<>>

InitAssembly ==
  /\ MemoInit
  /\ ThreadsIdle
  /\ useLock = FALSE
  /\ \E I \in 1..MaxInterior, F \in 1..MaxBoundary, R \in 1..MaxBoundary :
       \E r \in 0..(I + 2 * F + 2 * R - 1), flip \in BOOLEAN :
         Allocated(Grouping(I, F, R, r, flip), I + 2 * F + 2 * R)

\* a grouping made to overlap: one index of a group replaced by an index of
\* another group
InitOverlap ==
  /\ MemoInit
  /\ ThreadsIdle
  /\ useLock = FALSE
  /\ \E I \in 1..MaxInterior, F \in 1..MaxBoundary, R \in 1..MaxBoundary :
       \E flip \in BOOLEAN, g1 \in GroupNames, g2 \in GroupNames :
         LET base == Grouping(I, F, R, 0, flip) IN
         /\ g1 # g2
         /\ \E j \in 1..Len(base[g2]), e \in Range(base[g1]) :
              Allocated([base EXCEPT ![g2][j] = e], I + 2 * F + 2 * R)

\* pass k: the stencils evaluated at the source nodes, written into the
\* rows of the target indices of the pass's blocks
RunPass(k) ==
  /\ step = k - 1
  /\ LET p == PassNames[k]
         src == idx[PassSource(p)]
         tgt == idx[PassTarget(p)]
         out(blk) == [j \in 1..Len(src) |-> PassRow(p, blk, src[j])]
     IN  /\ G' = [blk \in Blocks |->
                    IF blk \in PassBlocks(p)
                      THEN add_rows(G[blk], out(blk), tgt)
                      ELSE G[blk]]
         /\ writes' = [blk \in Blocks |-> [row \in 0..(N - 1) |->
                         IF blk \in PassBlocks(p) /\ row \in Range(tgt)
                           THEN Append(writes[blk][row], p)
                           ELSE writes[blk][row]]]
  /\ step' = k
  /\ UNCHANGED <<idx, N, Gfull>>
  /\ UNCHANGED postVars
  /\ UNCHANGED memoVars
  /\ UNCHANGED threadVars

\* lines 82-86
BodyForceInterior == RunPass(1)

\* lines 89-93
BodyForceFreeGhosts == RunPass(2)

\* lines 95-99
BodyForceRollerGhosts == RunPass(3)

\* lines 103-107
FreeSurfaceTraction == RunPass(4)

\* lines 111-115
RollerNormalDisplacement == RunPass(5)

\* lines 117-122
RollerTangentialTraction == RunPass(6)

\* lines 124-127: G = vstack(hstack(G_xx, G_xy), hstack(G_yx, G_yy))
Stack ==
  /\ step = 6
  /\ Gfull' = [row \in 0..(2 * N - 1) |->
                 IF row < N
                   THEN << G["xx"][row], G["xy"][row] >>
                   ELSE << G["yx"][row - N], G["yy"][row - N] >>]
  /\ step' = 7
  /\ UNCHANGED <<idx, N, G, writes>>
  /\ UNCHANGED postVars
  /\ UNCHANGED memoVars
  /\ UNCHANGED threadVars

\* lines 130-145: d_x and d_y start as zeros, the groups are assigned one
\* after the other, d = hstack(d_x, d_y)
FormRhs ==
  /\ step = 7
  /\ d' = RightHandSide(idx, N)
  /\ step' = 8
  /\ UNCHANGED <<idx, N, G, Gfull, writes, fields, nvec, tvec>>
  /\ UNCHANGED memoVars
  /\ UNCHANGED threadVars

\* lines 148-178: the solution and the fields derived from it are aligned
\* with the node set; each is then indexed with idx_no_ghosts
TossGhosts ==
  /\ step = 8
  /\ fields' = [f \in FieldNames |-> Take(Aligned(N), IdxNoGhosts(idx))]
  /\ step' = 9
  /\ UNCHANGED <<idx, N, G, Gfull, writes, d, nvec, tvec>>
  /\ UNCHANGED memoVars
  /\ UNCHANGED threadVars

NextAssembly ==
  \/ BodyForceInterior
  \/ BodyForceFreeGhosts
  \/ BodyForceRollerGhosts
  \/ FreeSurfaceTraction
  \/ RollerNormalDisplacement
  \/ RollerTangentialTraction
  \/ Stack
  \/ FormRhs
  \/ TossGhosts

SpecAssembly == InitAssembly /\ [][NextAssembly]_vars

SpecOverlap == InitOverlap /\ [][NextAssembly]_vars

(***************************************************************************)
(* find_orthogonals applied to an array of unit normals (line 118).        *)
(***************************************************************************)
InitOrthogonals ==
  /\ MemoInit
  /\ ThreadsIdle
  /\ useLock = FALSE
  /\ idx = [g \in GroupNames |-> <<>>]
  /\ N = 0
  /\ G = [blk \in Blocks |-> <<>>]
  /\ Gfull = <<>>
  /\ step = 0
  /\ writes = [blk \in Blocks |-> <<>>]
  /\ d = <<>>
  /\ fields = [f \in FieldNames |-> <<>>]
  /\ nvec \in NormalArrays
  /\ tvec = <<>>

\* line 118: parallels = find_orthogonals(normals[idx['boundary:roller']])
FindOrthogonals ==
  /\ tvec = <<>>
  /\ nvec # <<>>
  /\ LET r == find_orthogonals(nvec) IN
       /\ nvec' = r.n
       /\ tvec' = r.out
  /\ UNCHANGED <<idx, N, G, Gfull, step, writes, d, fields>>
  /\ UNCHANGED memoVars
  /\ UNCHANGED threadVars

NextOrthogonals == FindOrthogonals

SpecOrthogonals == InitOrthogonals /\ [][NextOrthogonals]_vars

(***************************************************************************)
(* Properties of the cache under single-threaded use (Spec).               *)
(***************************************************************************)

\* the step is a whole call of instance i with arguments a
CallStep(i, a) == ev'.op = "call" /\ ev'.inst = i /\ ev'.args = a

\* some argument has no tobytes method
Unserializable(a) == \E j \in 1..Len(a) : a[j].kind # "ndarray"

\* the tuple of the arguments' byte strings, one per argument
BytesPerArg(a) == [j \in 1..Len(a) |-> DataBytes(a[j].data, a[j].itemsize)]

\* C1: a call whose key is stored returns the stored result, does not invoke
\* the wrapped function and leaves the cache as it is; a call whose key is
\* not stored invokes the wrapped function (once: a call invokes it at most
\* once).  So between two calls with identical bytes, with no clear and no
\* eviction of the key in between, only the first invokes it.
C1_HitDoesNotInvoke ==
  [][\A i \in Instances, a \in ArgTuples :
       (CallStep(i, a) /\ ~Unserializable(a)) =>
         IF BytesPerArg(a) \in Keys(cache[i])
           THEN /\ ~ev'.finCalled
                /\ ~ev'.raised
                /\ ev'.ret = <<OD_get(cache[i], BytesPerArg(a))>>
                /\ cache' = cache
           ELSE ev'.finCalled]_vars

C1_Witness ==
  /\ ev.op = "call"
  /\ ev.hit
  /\ ~ev.finCalled
  /\ ev.ret = <<OD_get(cache[ev.inst], KeyOf(ev.args))>>

\* C2: the dictionary's order is the order of insertion; a miss at capacity
\* removes exactly the earliest-inserted stored key; a hit leaves the order
\* as it was.
C2_EvictionIsFIFO ==
  /\ [](\A i \in Instances : KeySeq(cache[i]) = inserted[i])
  /\ [][\A i \in Instances, a \in ArgTuples :
          (CallStep(i, a) /\ ~Unserializable(a)) =>
            IF BytesPerArg(a) \in Keys(cache[i])
              THEN KeySeq(cache'[i]) = KeySeq(cache[i])
              ELSE Len(cache[i]) >= MAX_CACHE_SIZE =>
                     /\ ev'.evicted = <<Head(inserted[i])>>
                     /\ Keys(cache[i]) \ Keys(cache'[i]) = {Head(inserted[i])}]_vars

\* a hit on the oldest entry, then a miss at capacity that evicts that entry
C2_Witness ==
  /\ ev.op = "call"
  /\ ev.evicted # <<>>
  /\ ev.prevHit = <<ev.inst, ev.evicted[1]>>
  /\ Len(cache[ev.inst]) = MAX_CACHE_SIZE

\* C3: no instance ever holds more than MAX_CACHE_SIZE entries.
C3_SizeBounded == \A i \in Instances : Len(cache[i]) <= MAX_CACHE_SIZE

C3_Witness ==
  /\ ev.op = "call"
  /\ ev.evicted # <<>>
  /\ ~ev.raised
  /\ Len(cache[ev.inst]) = MAX_CACHE_SIZE

\* C4: clear_caches() raises nothing, leaves every live instance with an
\* empty cache and every collected instance as it was, and the next call on
\* a live instance invokes the wrapped function.
C4_ClearEmptiesLive ==
  /\ [](ev.op = "clear" =>
          /\ ~ev.raised
          /\ \A i \in Instances : alive[i] => cache[i] = <<>>)
  /\ [][/\ ev'.op = "clear" =>
             /\ alive' = alive
             /\ \A i \in Instances : ~alive[i] => cache'[i] = cache[i]
        /\ \A i \in Instances, a \in ArgTuples :
             (ev.op = "clear" /\ CallStep(i, a) /\ ~Unserializable(a))
               => ev'.finCalled]_vars

\* a clear that emptied a live non-empty cache while a dead reference was in
\* the registry
C4_Witness ==
  /\ ev.op = "clear"
  /\ ev.dropped > 0
  /\ ~ev.raised
  /\ \E j \in 1..Len(INSTANCES) : ~alive[INSTANCES[j]]
  /\ \E j \in 1..Len(INSTANCES) : alive[INSTANCES[j]]

\* C5 as stated: a call hits exactly when an earlier call whose entry is
\* still stored had the same concatenation of argument bytes.
C5_HitIffSameConcatenation ==
  [][\A i \in Instances, a \in ArgTuples :
       (CallStep(i, a) /\ ~Unserializable(a)) =>
         (ev'.hit <=> \E j \in 1..Len(cache[i]) :
            ConcatBytes(cache[i][j].val.of) = ConcatBytes(a))]_vars

\* C5 amended: a call hits exactly when an earlier call whose entry is still
\* stored had the same number of arguments and, argument by argument, the
\* same bytes (the key is the tuple of the byte strings, not one string).
C5_HitIffSameBytesPerArgument ==
  [][\A i \in Instances, a \in ArgTuples :
       (CallStep(i, a) /\ ~Unserializable(a)) =>
         (ev'.hit <=> \E j \in 1..Len(cache[i]) :
            LET b == cache[i][j].val.of IN
            /\ Len(b) = Len(a)
            /\ \A p \in 1..Len(a) :
                 DataBytes(b[p].data, b[p].itemsize)
                   = DataBytes(a[p].data, a[p].itemsize))]_vars

\* a call that missed and stored its own entry although an entry with the
\* same concatenated bytes, split differently over the arguments, is stored
C5_Witness ==
  /\ ev.op = "call"
  /\ ~Unserializable(ev.args)
  /\ ~ev.hit
  /\ ~ev.raised
  /\ \E j \in 1..Len(cache[ev.inst]) :
       LET b == cache[ev.inst][j].val.of IN
       /\ b # ev.args
       /\ ConcatBytes(b) = ConcatBytes(ev.args)
       /\ Len(b) # Len(ev.args)

\* C6: a call with an argument that has no byte serialization raises, does
\* not invoke the wrapped function, evicts nothing and leaves every cache
\* as it was.
C6_UnserializableRaises ==
  [][\A i \in Instances, a \in ArgTuples :
       (CallStep(i, a) /\ Unserializable(a)) =>
         /\ ev'.raised
         /\ ~ev'.finCalled
         /\ ev'.evicted = <<>>
         /\ ev'.ret = <<>>
         /\ cache' = cache]_vars

\* such a call on a full cache
C6_Witness ==
  /\ ev.op = "call"
  /\ Unserializable(ev.args)
  /\ ev.raised
  /\ Len(cache[ev.inst]) = MAX_CACHE_SIZE

(***************************************************************************)
(* Properties of the cache under concurrent calls (SpecThreads).           *)
(***************************************************************************)

\* thread t has invoked the wrapped function and holds its result, not yet
\* stored
Computed(t) == pc[t] = "store"

\* a computation that a cache hit should have saved: two threads have both
\* invoked the wrapped function for the same key, or one has invoked it for
\* a key that is stored by now
DuplicateComputation ==
  \E t \in Threads :
    /\ Computed(t)
    /\ \/ BytesPerArg(targs[t]) \in Keys(cache[shared])
       \/ \E u \in Threads \ {t} :
            Computed(u) /\ BytesPerArg(targs[u]) = BytesPerArg(targs[t])

\* C7: when every call runs under one common lock, no computation is
\* duplicated and the cache never exceeds MAX_CACHE_SIZE.  (Without the lock
\* both happen: C7_Witness, C7_OverflowReached.)
C7_LockedCallsAreAtomic ==
  useLock => /\ ~DuplicateComputation
             /\ Len(cache[shared]) <= MAX_CACHE_SIZE
             /\ \A t \in Threads : pc[t] # "idle" => lock = t

\* no lock, the same absent key, both threads have invoked the function
C7_Witness ==
  /\ ~useLock
  /\ \A t \in Threads : Computed(t)
  /\ targs["t1"] = targs["t2"]
  /\ BytesPerArg(targs["t1"]) \notin Keys(cache[shared])

\* no lock, and the cache holds more than MAX_CACHE_SIZE entries
C7_OverflowReached == ~useLock /\ Len(cache[shared]) > MAX_CACHE_SIZE

(***************************************************************************)
(* Properties of the assembly (SpecAssembly: the generator's groupings;    *)
(* SpecOverlap: groupings made to overlap).                                *)
(***************************************************************************)
PassesRun == 1..(IF step > 6 THEN 6 ELSE step)

\* the node indices pass k targets
TargetsOf(k) == Range(idx[PassTarget(PassNames[k])])

\* some row of some block has been written by more than one pass
RowWrittenTwice ==
  \E blk \in Blocks, row \in 0..(N - 1) : Len(writes[blk][row]) > 1

\* C8 as stated: no node index is the target of more than one of the passes
\* run.
C8_TargetSetsPairwiseDisjoint ==
  \A k1 \in PassesRun, k2 \in PassesRun :
    k1 < k2 => TargetsOf(k1) \cap TargetsOf(k2) = {}

\* C8 amended: the target index sets are pairwise disjoint except for the
\* two roller passes, which both target the roller boundary nodes and write
\* different blocks; no row of a block is written by more than one pass.
C8_RowsWrittenByOnePass ==
  /\ ~RowWrittenTwice
  /\ \A k1 \in PassesRun, k2 \in PassesRun :
       (k1 < k2 /\ TargetsOf(k1) \cap TargetsOf(k2) # {}) =>
         /\ PassNames[k1] = "normal:roller"
         /\ PassNames[k2] = "tangent:roller"
         /\ PassBlocks(PassNames[k1]) \cap PassBlocks(PassNames[k2]) = {}

\* all passes run: a roller node is the target of both roller passes, one
\* writing its row of xx, the other its row of yx
C8_Witness ==
  /\ step = 7
  /\ Len(idx["boundary:roller"]) > 1
  /\ \A j \in 1..Len(idx["boundary:roller"]) :
       LET row == idx["boundary:roller"][j] IN
       /\ writes["xx"][row] = << "normal:roller" >>
       /\ writes["yx"][row] = << "tangent:roller" >>

\* C9 as stated: the assembly never delivers a stacked operator when two
\* passes wrote the same row (it stops with a KeyConflict instead).
C9_OverlapIsReported == step = 7 => ~RowWrittenTwice

\* the operator family of the stencils a pass evaluates
FamilyOf(p) ==
  CASE p \in {"body:interior", "body:free", "body:roller"} -> "body_force"
    [] p = "traction:free" -> "surface_force"
    [] p = "normal:roller" -> "displacement"
    [] OTHER -> "surface_force"

\* the node whose equation pass p wrote into `row`
SourceNodeOf(p, row) ==
  idx[PassSource(p)][LastAt(idx[PassTarget(p)], row)]

GhostNodes == Range(idx["ghosts:free"]) \cup Range(idx["ghosts:roller"])

\* the interior nodes and the true boundary nodes
RetainedNodes ==
  Range(idx["interior"]) \cup Range(idx["boundary:roller"])
    \cup Range(idx["boundary:free"])

\* C11 as stated: every reported field holds exactly the interior and true
\* boundary nodes, no ghost node, and lists them in the relative order they
\* have in the full node set, that is, by ascending node index.
C11_ReportedInNodeSetOrder ==
  step = 9 =>
    \A f \in FieldNames :
      /\ Range(fields[f]) = RetainedNodes
      /\ Range(fields[f]) \cap GhostNodes = {}
      /\ \A j, k \in 1..Len(fields[f]) :
           j < k => fields[f][j] < fields[f][k]

\* C11, amended: every reported field holds exactly the interior and true
\* boundary nodes, each once, and no ghost node; all fields list them in
\* the same order, which is the order of the groups (interior, then
\* boundary:roller, then boundary:free), each group in its own order.
C11_ReportedInGroupOrder ==
  step = 9 =>
    \A f \in FieldNames :
      /\ Range(fields[f]) = RetainedNodes
      /\ Range(fields[f]) \cap GhostNodes = {}
      /\ Len(fields[f]) = Cardinality(RetainedNodes)
      /\ fields[f] =
           idx["interior"] \o idx["boundary:roller"] \o idx["boundary:free"]

\* the ghosts are tossed, there were ghosts, and two retained nodes are
\* reported in the reverse of their order in the node set
C11_Witness ==
  /\ step = 9
  /\ GhostNodes # {}
  /\ \E j, k \in 1..Len(fields["nodes"]) :
       j < k /\ fields["nodes"][j] > fields["nodes"][k]

(***************************************************************************)
(* Properties of find_orthogonals (SpecOrthogonals).                       *)
(***************************************************************************)

\* C12: for every row n = (n0, n1) of unit length the returned row t is the
\* normalization of (-n1, n0), so n . t = 0 and |t| = 1 (in exact
\* arithmetic), and the argument array is the same after the call.
C12_OrthogonalUnitInputKept ==
  /\ [](tvec # <<>> =>
          /\ Len(tvec) = Len(nvec)
          /\ \A j \in 1..Len(nvec) :
               LET n == nvec[j]
                   t == tvec[j]
               IN  /\ t.den > 0
                   /\ t.x * n.den = (0 - n.y) * t.den
                   /\ t.y * n.den = n.x * t.den
                   /\ n.x * t.x + n.y * t.y = 0
                   /\ t.x * t.x + t.y * t.y = t.den * t.den)
  /\ [][nvec' = nvec]_vars

\* find_orthogonals has returned for an array of two rows, one of them
\* oblique to both axes
C12_Witness ==
  /\ tvec # <<>>
  /\ Len(nvec) = 2
  /\ \E j \in 1..Len(nvec) : nvec[j].x # 0 /\ nvec[j].y # 0
  /\ \E j \in 1..Len(nvec) : nvec[j].y = 0

(***************************************************************************)
(* Properties of the passes on a generator grouping (SpecAssembly).        *)
(***************************************************************************)

\* the roller boundary nodes
RollerNodes == Range(idx["boundary:roller"])

\* C13 as stated: after the roller normal-displacement pass the row of a
\* roller node in the x-equation band holds the displacement xx stencil
\* times the normal's x-component, and its row in the y-equation band holds
\* the displacement yy stencil times the normal's y-component.
C13_NormalInBothBands ==
  step = 5 =>
    \A m \in RollerNodes :
      /\ G["xx"][m] = {Term(normals, 0, "displacement", "xx", m)}
      /\ G["yy"][m] = {Term(normals, 1, "displacement", "yy", m)}

\* C13, amended: the roller normal-displacement pass writes both scaled
\* stencils into the x-equation band: the displacement xx stencil times the
\* normal's x-component into block xx and the displacement yy stencil times
\* the normal's y-component into block xy, so the x-equation row is
\* n_x u_x + n_y u_y.  It writes no row of the y-equation band (blocks yx
\* and yy), which is still zero for the roller nodes after the pass.
C13_NormalInXBand ==
  step >= 5 =>
    \A m \in RollerNodes :
      /\ G["xx"][m] = {Term(normals, 0, "displacement", "xx", m)}
      /\ G["xy"][m] = {Term(normals, 1, "displacement", "yy", m)}
      /\ step = 5 => G["yx"][m] = {} /\ G["yy"][m] = {}
      /\ \A blk \in {"yx", "yy"} :
           \A j \in 1..Len(writes[blk][m]) :
             writes[blk][m][j] # "normal:roller"

\* the normal-displacement pass has just run on two roller nodes
C13_Witness ==
  /\ step = 5
  /\ Cardinality(RollerNodes) = 2
  /\ \A m \in RollerNodes : writes["xy"][m] = <<"normal:roller">>

\* C14: the roller tangential-traction pass leaves blocks xx and xy as they
\* are and changes no row of a node outside the roller boundary group; the
\* row of a roller node with tangent (t_x, t_y) becomes t_x S_xx + t_y S_yx
\* in block yx and t_x S_xy + t_y S_yy in block yy, S being the
\* surface-force stencils at that node.
C14_TangentWritesYBandOnly ==
  [][(step = 5 /\ step' = 6) =>
       /\ G'["xx"] = G["xx"]
       /\ G'["xy"] = G["xy"]
       /\ \A row \in 0..(N - 1) :
            IF row \in RollerNodes
              THEN /\ G'["yx"][row] =
                        {Term(parallels, 0, "surface_force", "xx", row),
                         Term(parallels, 1, "surface_force", "yx", row)}
                   /\ G'["yy"][row] =
                        {Term(parallels, 0, "surface_force", "xy", row),
                         Term(parallels, 1, "surface_force", "yy", row)}
              ELSE /\ G'["yx"][row] = G["yx"][row]
                   /\ G'["yy"][row] = G["yy"][row]]_vars

\* the tangential-traction pass has just run on two roller nodes, and the
\* blocks xx and xy hold the rows of the earlier passes
C14_Witness ==
  /\ step = 6
  /\ Cardinality(RollerNodes) = 2
  /\ \A m \in RollerNodes :
       /\ writes["yx"][m] = <<"tangent:roller">>
       /\ Cardinality(G["yy"][m]) = 2
       /\ G["xx"][m] # {}

\* the boundary groups that have ghosts, each with its ghost group
GhostPairs ==
  {<<"boundary:free", "ghosts:free">>, <<"boundary:roller", "ghosts:roller">>}

\* C15: once the ghost body-force passes have run, the row of the j-th ghost
\* node of a ghost group holds, in every block, the body-force stencil
\* evaluated at the j-th node of its boundary group, for every j; no
\* body-force pass has written the row of a boundary node.
C15_GhostRowsCarryBoundaryBodyForce ==
  step >= 3 =>
    \A pr \in GhostPairs :
      LET bnd == idx[pr[1]]
          gh  == idx[pr[2]]
      IN  /\ Len(gh) = Len(bnd)
          /\ \A j \in 1..Len(bnd), blk \in Blocks :
               /\ G[blk][gh[j]] = {Term("one", 0, "body_force", blk, bnd[j])}
               /\ \A k \in 1..Len(writes[blk][bnd[j]]) :
                    FamilyOf(writes[blk][bnd[j]][k]) # "body_force"

\* both ghost body-force passes have run, on groups of two nodes each
C15_Witness ==
  /\ step = 3
  /\ \A pr \in GhostPairs :
       /\ Len(idx[pr[2]]) = 2
       /\ \A j \in 1..2 : writes["xx"][idx[pr[2]][j]] # <<>>

\* the row of node `row` holds a body-force equation in both bands
HoldsBodyForce(row) ==
  \A blk \in Blocks : \E t \in G[blk][row] : t.fam = "body_force"

\* C16: the right-hand side has length 2N, the x half first.  The x half is
\* zero everywhere.  The y half is the load, which is not zero, at the rows
\* that hold a body-force equation, which are those of the interior and
\* the ghost nodes, and zero at the rows that hold a boundary condition,
\* which are those of the free and roller boundary nodes.
C16_RhsMatchesRows ==
  step >= 8 =>
    /\ Len(d) = 2 * N
    /\ Load # 0
    /\ \A row \in 0..(N - 1) :
         /\ d[row + 1] = 0
         /\ d[N + row + 1] = (IF HoldsBodyForce(row) THEN Load ELSE 0)
         /\ HoldsBodyForce(row) <=>
              row \in Range(idx["interior"]) \cup GhostNodes
         /\ ~HoldsBodyForce(row) <=>
              row \in Range(idx["boundary:free"]) \cup RollerNodes

\* the right-hand side is built, with the load at a ghost row and zero at a
\* boundary row
C16_Witness ==
  /\ step = 8
  /\ \E row \in GhostNodes : d[N + row + 1] = Load
  /\ \E row \in RollerNodes : d[N + row + 1] = 0
  /\ \E row \in Range(idx["boundary:free"]) : d[N + row + 1] = 0

\* C17: once all passes have run, every row of every block has been written
\* by exactly one pass and is not the zero row; the two column blocks of an
\* x-equation row were written by the same pass, and so were the two of a
\* y-equation row.  The stacked operator has 2N rows, x-equation row i and
\* y-equation row N + i for node i, neither half of any of them zero.
C17_EveryRowWrittenOnce ==
  /\ step >= 6 =>
       \A row \in 0..(N - 1) :
         /\ \A blk \in Blocks :
              Len(writes[blk][row]) = 1 /\ G[blk][row] # {}
         /\ writes["xx"][row] = writes["xy"][row]
         /\ writes["yx"][row] = writes["yy"][row]
  /\ step >= 7 =>
       /\ DOMAIN Gfull = 0..(2 * N - 1)
       /\ \A row \in 0..(2 * N - 1) :
            Gfull[row][1] # {} /\ Gfull[row][2] # {}

\* the operator is stacked for a grouping with every group of two nodes
C17_Witness ==
  /\ step = 7
  /\ \A g \in GroupNames : Len(idx[g]) = 2
  /\ DOMAIN Gfull = 0..(2 * N - 1)

(***************************************************************************)
(* Properties of a call whose computation or final lookup is disturbed.    *)
(***************************************************************************)

\* C18: when the wrapped function raises during a miss, the caller gets the
\* exception, the key is not stored, and the cache is what it was before
\* the call, whatever its size was.
C18_FailedMissKeepsEntries ==
  [][\A i \in Instances, a \in RaisingArgs :
       (CallStep(i, a) /\ BytesPerArg(a) \notin Keys(cache[i])) =>
         /\ ev'.finCalled
         /\ ev'.raised
         /\ BytesPerArg(a) \notin Keys(cache'[i])
         /\ cache'[i] = cache[i]]_vars

\* C19: a call of a thread that missed, and whose computation did not
\* raise, returns the value computed for its arguments; it never ends in an
\* exception at the final lookup.
C19_MissReturnsComputedValue ==
  (ev.op = "call" /\ ev.thread \in Threads /\ ev.finCalled
     /\ ev.args \notin RaisingArgs) =>
    /\ ~ev.raised
    /\ ev.ret = <<fin(ev.args)>>

====
